---- MODULE Spec2Model ----
(***************************************************************************)
(* The PNG chunk codec of pngme: ChunkType (src/src/chunk_type.rs), Chunk  *)
(* (src/src/chunk.rs) and the Result helpers (src/src/types.rs).           *)
(*                                                                         *)
(* Representation.                                                         *)
(*   u8        a number in 0..255                                          *)
(*   [u8; n], Vec<u8>, &[u8], String (its UTF-8 bytes)                      *)
(*             a sequence of u8; Rust index i is TLA+ index i + 1          *)
(*   u32       two 16-bit limbs <<hi, lo>>, value hi * 65536 + lo (TLC's   *)
(*             integers stop at 2^31 - 1, a u32 does not)                  *)
(*   usize     a 64-bit target is modelled: REQ_FIELDS_WIDTH + a u32 never *)
(*             overflows                                                   *)
(*   Result    [kind |-> "ok" | "err" | "panic", val, msg]                 *)
(***************************************************************************)
EXTENDS Integers, Sequences, FiniteSets, TLC

VARIABLES code, tres, chunk, buf, origin, res

vars == <<code, tres, chunk, buf, origin, res>>

-----------------------------------------------------------------------------
(* Bounds of the model and the byte alphabets the inputs are drawn from.   *)

\* longest payload handed to Chunk::new and to the assembled buffers
MaxLen == 2

\* bytes of the 4-byte arrays handed to ChunkType::try_from in TypeSpec:
\* NUL, '1', '@', 'A', 'R', 'S', 'Z', '[', '`', 'a', 's', 't', 'u', 'z', '{',
\* 0xFF (both ends of both letter ranges and their outside neighbours)
WideBytes == {0, 49, 64, 65, 82, 83, 90, 91, 96, 97, 115, 116, 117, 122, 123, 255}

\* bytes of the type codes of the codec specification: '1', 'R', 't'
TypeBytes == {49, 82, 116}

\* payload bytes: NUL and 0xFF (never valid UTF-8)
PayloadBytes == {0, 255}

\* values a corrupted byte is overwritten with: NUL, '1', 'r'
NoiseBytes == {0, 49, 114}

-----------------------------------------------------------------------------
(* types.rs                                                                *)

NoVal == <<>>

Ok(v) == [kind |-> "ok", val |-> v, msg |-> ""]

\* error_from: a boxed error carrying the message
error_from(msg) == [kind |-> "err", val |-> NoVal, msg |-> msg]

\* a panic (index out of bounds, arithmetic overflow): no Result is returned
Panic(msg) == [kind |-> "panic", val |-> NoVal, msg |-> msg]

NoRes == [kind |-> "none", val |-> NoVal, msg |-> ""]

assert_or_err(assertion, err_msg) == IF assertion THEN Ok(NoVal) ELSE error_from(err_msg)

-----------------------------------------------------------------------------
(* Machine integers                                                        *)

RECURSIVE BitXor(_, _)
\* a ^ b on naturals
BitXor(a, b) ==
    IF a = 0 THEN b
    ELSE IF b = 0 THEN a
    ELSE (((a % 2) + (b % 2)) % 2) + 2 * BitXor(a \div 2, b \div 2)

RECURSIVE BitAnd(_, _)
\* a & b on naturals
BitAnd(a, b) ==
    IF a = 0 \/ b = 0 THEN 0
    ELSE ((a % 2) * (b % 2)) + 2 * BitAnd(a \div 2, b \div 2)

\* n as u32, for a usize n below 2^31
AsU32(n) == <<(n \div 65536) % 65536, n % 65536>>

\* mutant of to_be_bytes: the bytes from the lowest to the highest
to_be_bytes_LittleEndian(x) == <<x[2] % 256, x[2] \div 256, x[1] % 256, x[1] \div 256>>

\* u32::to_be_bytes
to_be_bytes(x) == <<x[1] \div 256, x[1] % 256, x[2] \div 256, x[2] % 256>>

\* mutant of from_be_bytes: the array read from the lowest byte up
from_be_bytes_LittleEndian(b) == <<b[4] * 256 + b[3], b[2] * 256 + b[1]>>

\* u32::from_be_bytes on a [u8; 4]
from_be_bytes(b) == <<b[1] * 256 + b[2], b[3] * 256 + b[4]>>

\* x ^ y on u32
Xor32(x, y) == <<BitXor(x[1], y[1]), BitXor(x[2], y[2])>>

\* x >> 1 on u32
Shr1(x) == <<x[1] \div 2, (x[2] \div 2) + (x[1] % 2) * 32768>>

\* x >> 8 on u32
Shr8(x) == <<x[1] \div 256, (x[2] \div 256) + (x[1] % 256) * 256>>

\* mutant of UsizeEqSum: bytes after the declared length are let through
UsizeEqSum_AtLeast(len, req, x) ==
    /\ len >= req
    /\ x[1] < 32768
    /\ len - req >= x[1] * 65536 + x[2]

\* (len == REQ + (x as usize)) for a slice length len below 2^31 and a
\* 64-bit usize: the sum does not wrap
UsizeEqSum(len, req, x) ==
    /\ len >= req
    /\ x[1] < 32768
    /\ len - req = x[1] * 65536 + x[2]

-----------------------------------------------------------------------------
(* crc::Crc::<u32>::new(&crc::CRC_32_ISO_HDLC).checksum(bytes)             *)
(* width 32, poly 0x04C11DB7 (reflected 0xEDB88320), init 0xFFFFFFFF,      *)
(* refin, refout, xorout 0xFFFFFFFF                                        *)

CrcPolyReflected == <<60856, 33568>>    \* 0xEDB8 8320
CrcInit == <<65535, 65535>>
CrcXorOut == <<65535, 65535>>

\* one round of the reflected shift register
CrcRound(c) == IF c[2] % 2 = 1 THEN Xor32(Shr1(c), CrcPolyReflected) ELSE Shr1(c)

\* the table of the crate's table-driven checksum: entry i is i after 8 rounds
CrcTable ==
    [i \in 0..255 |->
        CrcRound(CrcRound(CrcRound(CrcRound(CrcRound(CrcRound(CrcRound(CrcRound(
            <<0, i>>))))))))]

\* the register after one more input byte:
\* table[(crc ^ byte) & 0xFF] ^ (crc >> 8)
CrcByte(c, byte) == Xor32(CrcTable[BitXor(c[2] % 256, byte)], Shr8(c))

RECURSIVE CrcFeed(_, _, _, _)
\* the register c after bytes[lo .. hi] went in, in order. The range is
\* halved, and the test on the left half's register makes TLC compute it
\* before the right half starts, so that the evaluation stays shallow for
\* long inputs; the bytes go in one by one, first to last, all the same
CrcFeed(c, bytes, lo, hi) ==
    IF lo > hi THEN c
    ELSE IF lo = hi THEN CrcByte(c, bytes[lo])
    ELSE LET mid == (lo + hi) \div 2
             left == CrcFeed(c, bytes, lo, mid)
         IN  CASE left \in Seq(Nat) -> CrcFeed(left, bytes, mid + 1, hi)

\* mutant of checksum: the final XOR is left out
checksum_NoXorOut(bytes) == CrcFeed(CrcInit, bytes, 1, Len(bytes))

checksum(bytes) == Xor32(CrcFeed(CrcInit, bytes, 1, Len(bytes)), CrcXorOut)

-----------------------------------------------------------------------------
(* Slices and strings                                                      *)

\* value[a..b] (Rust offsets, b exclusive): panics when out of range
Slice(value, a, b) ==
    IF a <= b /\ b <= Len(value)
    THEN Ok(SubSeq(value, a + 1, b))
    ELSE Panic("slice index out of range")

\* <[u8; 4]>::try_from(&[u8]): TryFromSliceError unless the slice has 4 bytes
try_into4(slice) ==
    IF Len(slice) = 4 THEN Ok(slice)
    ELSE error_from("could not convert slice to array")

\* core::str: the width of a UTF-8 sequence from its first byte, 0 = invalid
Utf8Width(b) ==
    IF b < 128 THEN 1
    ELSE IF b \in 194..223 THEN 2
    ELSE IF b \in 224..239 THEN 3
    ELSE IF b \in 240..244 THEN 4
    ELSE 0

\* the values the second byte of a sequence may take, by first byte
Utf8Second(b) ==
    CASE b = 224 -> 160..191
      [] b = 237 -> 128..159
      [] b = 240 -> 144..191
      [] b = 244 -> 128..143
      [] OTHER   -> 128..191

\* <<well-formed, bytes consumed>> for the sequence that starts at s[i]
Utf8At(s, i) ==
    LET w == Utf8Width(s[i])
        cont(k) == /\ i + k <= Len(s)
                   /\ s[i + k] \in (IF k = 1 THEN Utf8Second(s[i]) ELSE 128..191)
    IN  IF w = 0 THEN <<FALSE, 1>>
        ELSE IF w = 1 THEN <<TRUE, 1>>
        ELSE IF ~cont(1) THEN <<FALSE, 1>>
        ELSE IF w = 2 THEN <<TRUE, 2>>
        ELSE IF ~cont(2) THEN <<FALSE, 2>>
        ELSE IF w = 3 THEN <<TRUE, 3>>
        ELSE IF ~cont(3) THEN <<FALSE, 3>>
        ELSE <<TRUE, 4>>

RECURSIVE Utf8ValidFrom(_, _)
Utf8ValidFrom(s, i) ==
    IF i > Len(s) THEN TRUE
    ELSE LET r == Utf8At(s, i) IN r[1] /\ Utf8ValidFrom(s, i + r[2])

\* String::from_utf8: the same bytes, or an error
from_utf8(v) == IF Utf8ValidFrom(v, 1) THEN Ok(v) ELSE error_from("invalid utf-8 sequence")

RECURSIVE Utf8LossyFrom(_, _)
Utf8LossyFrom(s, i) ==
    IF i > Len(s) THEN <<>>
    ELSE LET r == Utf8At(s, i)
         IN  (IF r[1] THEN SubSeq(s, i, i + r[2] - 1) ELSE <<239, 191, 189>>)
                 \o Utf8LossyFrom(s, i + r[2])

\* String::from_utf8_lossy: every ill-formed sequence becomes U+FFFD
from_utf8_lossy(v) == Utf8LossyFrom(v, 1)

-----------------------------------------------------------------------------
(* chunk_type.rs                                                           *)

\* mutant of InRange: both ranges without their last letter
InRange_Exclusive(byte) == byte \in 97..121 \/ byte \in 65..89

\* the match arms b'a'..=b'z' and b'A'..=b'Z'
InRange(byte) == byte \in 97..122 \/ byte \in 65..90

\* mutant of FirstOutOfRange: the last index whose byte takes the `_` arm
FirstOutOfRange_Last(value, i) ==
    LET bad == {j \in i..3 : ~InRange(value[j + 1])}
    IN  IF bad = {} THEN 4 ELSE CHOOSE j \in bad : \A k \in bad : k <= j

RECURSIVE FirstOutOfRange(_, _)
\* the for loop of try_from: the first index i (from 0) at or after i whose
\* byte takes the `_` arm, 4 when the loop runs to its end
FirstOutOfRange(value, i) ==
    IF i >= 4 THEN 4
    ELSE IF InRange(value[i + 1]) THEN FirstOutOfRange(value, i + 1)
    ELSE i

\* impl TryFrom<[u8; 4]> for ChunkType
ChunkType_try_from(value) ==
    LET i == FirstOutOfRange(value, 0)
    IN  IF i < 4
        THEN error_from("byte " \o ToString(i) \o " is out of range")
        ELSE Ok([ancillary    |-> value[1],
                 private      |-> value[2],
                 reserved     |-> value[3],
                 safe_to_copy |-> value[4]])

\* impl FromStr for ChunkType (the message without its two backquotes)
from_str(value) ==
    IF Len(value) # 4
    THEN error_from("value must be exactly 4 bytes long")
    ELSE LET b == try_into4(value)
         IN  IF b.kind # "ok" THEN b ELSE ChunkType_try_from(b.val)

bytes(t) == <<t.ancillary, t.private, t.reserved, t.safe_to_copy>>

is_critical(t) == BitAnd(t.ancillary, 32) = 0

\* mutant of is_public: the bit of byte 0 is tested
is_public_WrongByte(t) == BitAnd(t.ancillary, 32) = 0

is_public(t) == BitAnd(t.private, 32) = 0

is_reserved_bit_valid(t) == BitAnd(t.reserved, 32) = 0

is_safe_to_copy(t) == BitAnd(t.safe_to_copy, 32) # 0

is_valid(t) == is_reserved_bit_valid(t)

\* impl Display for ChunkType
ChunkType_to_string(t) == from_utf8_lossy(bytes(t))

-----------------------------------------------------------------------------
(* chunk.rs                                                                *)

LENGTH_WIDTH == 4
TYPE_WIDTH == 4
CRC_WIDTH == 4
\* mutant of REQ_FIELDS_WIDTH: the width of the checksum field is left out
REQ_FIELDS_WIDTH_NoCrc == LENGTH_WIDTH + TYPE_WIDTH

REQ_FIELDS_WIDTH == LENGTH_WIDTH + TYPE_WIDTH + CRC_WIDTH

Chunk_new(chunk_type, data) == [chunk_type |-> chunk_type, data |-> data]

\* mutant of length: the type bytes are counted in
length_WithType(c) == AsU32(Len(c.data) + TYPE_WIDTH)

length(c) == AsU32(Len(c.data))

chunk_type(c) == c.chunk_type

data(c) == c.data

\* mutant of crc: the type bytes are left out of the checksum
crc_DataOnly(c) == checksum(data(c))

crc(c) == checksum(bytes(c.chunk_type) \o data(c))

data_as_string(c) ==
    LET r == from_utf8(c.data)
    IN  IF r.kind = "ok" THEN r ELSE error_from("chunk data is not valid utf8")

as_bytes(c) ==
    to_be_bytes(length(c)) \o bytes(c.chunk_type) \o data(c) \o to_be_bytes(crc(c))

\* the tail of try_from, from `let crc_begin` on (the two length checks passed)
ReadFields(value, type_begin, data_begin, chunk_length) ==
    LET crc_begin == data_begin + (chunk_length[1] * 65536 + chunk_length[2])
        tslice == Slice(value, type_begin, data_begin)
        tarr == try_into4(tslice.val)
        t == ChunkType_try_from(tarr.val)
        dslice == Slice(value, data_begin, crc_begin)
        cslice == Slice(value, crc_begin, Len(value))
        carr == try_into4(cslice.val)
        chunk_crc == from_be_bytes(carr.val)
        unchecked_chunk == Chunk_new(t.val, dslice.val)
        check == assert_or_err(crc(unchecked_chunk) = chunk_crc,
                               "checksum does not match data")
    IN  IF tslice.kind # "ok" THEN tslice
        ELSE IF tarr.kind # "ok" THEN tarr
        ELSE IF t.kind # "ok" THEN t
        ELSE IF dslice.kind # "ok" THEN dslice
        ELSE IF cslice.kind # "ok" THEN cslice
        ELSE IF carr.kind # "ok" THEN carr
        ELSE IF check.kind # "ok" THEN check
        ELSE Ok(unchecked_chunk)

\* impl TryFrom<&[u8]> for Chunk
Chunk_try_from(value) ==
    LET length_begin == 0
        type_begin == length_begin + LENGTH_WIDTH
        data_begin == type_begin + TYPE_WIDTH
        complete == assert_or_err(Len(value) >= REQ_FIELDS_WIDTH,
                                  "invalid chunk data (incomplete)")
        lslice == Slice(value, length_begin, type_begin)
        larr == try_into4(lslice.val)
        chunk_length == from_be_bytes(larr.val)
        exact == assert_or_err(UsizeEqSum(Len(value), REQ_FIELDS_WIDTH, chunk_length),
                               "invalid chunk data (invalid length)")
    IN  IF complete.kind # "ok" THEN complete
        ELSE IF lslice.kind # "ok" THEN lslice
        ELSE IF larr.kind # "ok" THEN larr
        ELSE IF exact.kind # "ok" THEN exact
        ELSE ReadFields(value, type_begin, data_begin, chunk_length)

\* impl Display for Chunk: the three values the summary line is built from
Chunk_display(c) == <<length(c), ChunkType_to_string(chunk_type(c)), crc(c)>>

-----------------------------------------------------------------------------
(* The values of the tests of chunk.rs                                     *)

\* "RuSt".as_bytes()
RuSt == <<82, 117, 83, 116>>

\* "This is where your secret message will be!".as_bytes()
Message ==
    <<84, 104, 105, 115, 32, 105, 115, 32, 119, 104, 101, 114, 101, 32, 121,
      111, 117, 114, 32, 115, 101, 99, 114, 101, 116, 32, 109, 101, 115, 115,
      97, 103, 101, 32, 119, 105, 108, 108, 32, 98, 101, 33>>

\* data_length: u32 = 42
TestLength == <<0, 42>>

\* crc: u32 = 2882656334 = 43985 * 65536 + 55374
TestCrc == <<43985, 55374>>

\* crc: u32 = 2882656333
TestBadCrc == <<43985, 55373>>

\* the chain of length, type, message and crc of the tests
Chain(data_length, type_bytes, message_bytes, crc_value) ==
    to_be_bytes(data_length) \o type_bytes \o message_bytes \o to_be_bytes(crc_value)

-----------------------------------------------------------------------------
(* State                                                                   *)
(*   code    the last input of ChunkType::try_from / from_str              *)
(*   tres    its Result                                                    *)
(*   chunk   the Chunk built by Chunk::new: <<>> or <<c>>                  *)
(*   buf     the byte buffer at hand                                       *)
(*   origin  how buf came about                                            *)
(*   res     the Result of Chunk::try_from(buf), NoRes before the call     *)

None == <<>>
Some(c) == <<c>>

\* the payloads of at most MaxLen bytes
Payloads == UNION {[1..n -> PayloadBytes] : n \in 0..MaxLen}

\* the length fields of the assembled buffers: 0 .. MaxLen + 1, 65536 and
\* 2^32 - 1
DeclaredLengths == {AsU32(n) : n \in 0..(MaxLen + 1)} \cup {<<1, 0>>, <<65535, 65535>>}

\* x - 1 on u32, wrapping
Pred32(x) ==
    IF x[2] > 0 THEN <<x[1], x[2] - 1>>
    ELSE IF x[1] > 0 THEN <<x[1] - 1, 65535>>
    ELSE <<65535, 65535>>

Init ==
    /\ code = <<>>
    /\ tres = NoRes
    /\ chunk = None
    /\ buf = <<>>
    /\ origin = "none"
    /\ res = NoRes

\* nothing was constructed yet. A run is one use of the library, from the
\* type code or the buffer handed in to the last Result, so Next and TypeNext
\* take an input only in a Fresh state
Fresh ==
    /\ tres.kind = "none"
    /\ chunk = None
    /\ origin = "none"
    /\ res.kind = "none"

\* ChunkType::try_from(value)
TypeTryFrom(value) ==
    /\ code' = value
    /\ tres' = ChunkType_try_from(value)
    /\ chunk' = None
    /\ buf' = <<>>
    /\ origin' = "none"
    /\ res' = NoRes

\* ChunkType::from_str(value)
TypeFromStr(value) ==
    /\ code' = value
    /\ tres' = from_str(value)
    /\ chunk' = None
    /\ buf' = <<>>
    /\ origin' = "none"
    /\ res' = NoRes

\* Chunk::new(chunk_type, data) with the ChunkType just constructed
New(payload) ==
    /\ tres.kind = "ok"
    /\ chunk = None
    /\ chunk' = Some(Chunk_new(tres.val, payload))
    /\ buf' = <<>>
    /\ origin' = "none"
    /\ res' = NoRes
    /\ UNCHANGED <<code, tres>>

\* chunk.as_bytes()
AsBytes ==
    /\ chunk # None
    /\ origin = "none"
    /\ buf' = as_bytes(chunk[1])
    /\ origin' = "as_bytes"
    /\ res' = NoRes
    /\ UNCHANGED <<code, tres, chunk>>

\* the encoded buffer reaches the decoder with one byte overwritten
SetByte(i, v) ==
    /\ origin = "as_bytes"
    /\ i \in 1..Len(buf)
    /\ v # buf[i]
    /\ buf' = [buf EXCEPT ![i] = v]
    /\ origin' = "corrupted"
    /\ res' = NoRes
    /\ UNCHANGED <<code, tres, chunk>>

\* ... or cut to its first n bytes
Truncate(n) ==
    /\ origin = "as_bytes"
    /\ n \in 0..(Len(buf) - 1)
    /\ buf' = SubSeq(buf, 1, n)
    /\ origin' = "corrupted"
    /\ res' = NoRes
    /\ UNCHANGED <<code, tres, chunk>>

\* ... or with one byte after its end
Append_(v) ==
    /\ origin = "as_bytes"
    /\ buf' = Append(buf, v)
    /\ origin' = "corrupted"
    /\ res' = NoRes
    /\ UNCHANGED <<code, tres, chunk>>

\* a buffer chained from four fields as the tests chain theirs: any declared
\* length, any 4 type bytes, any payload, and a checksum field that is the
\* CRC-32 of type and payload, that value minus one, or zero
Assemble(declared, type_bytes, payload, crc_choice) ==
    /\ LET good == checksum(type_bytes \o payload)
           field == CASE crc_choice = "good"      -> good
                      [] crc_choice = "minus_one" -> Pred32(good)
                      [] crc_choice = "zero"      -> <<0, 0>>
       IN  buf' = Chain(declared, type_bytes, payload, field)
    /\ code' = <<>>
    /\ tres' = NoRes
    /\ chunk' = None
    /\ origin' = "assembled"
    /\ res' = NoRes

\* Chunk::try_from(buf)
TryFrom ==
    /\ res.kind = "none"
    /\ res' = Chunk_try_from(buf)
    /\ UNCHANGED <<code, tres, chunk, buf, origin>>

\* test_new_chunk: ChunkType::from_str("RuSt").unwrap(), Chunk::new
TestNewChunk ==
    /\ code' = RuSt
    /\ tres' = from_str(RuSt)
    /\ tres'.kind = "ok"
    /\ chunk' = Some(Chunk_new(tres'.val, Message))
    /\ buf' = <<>>
    /\ origin' = "none"
    /\ res' = NoRes

\* test_valid_chunk_from_bytes
TestValidChunkFromBytes ==
    /\ buf' = Chain(TestLength, RuSt, Message, TestCrc)
    /\ res' = Chunk_try_from(buf')
    /\ origin' = "test_valid"
    /\ code' = <<>>
    /\ tres' = NoRes
    /\ chunk' = None

\* test_invalid_chunk_from_bytes
TestInvalidChunkFromBytes ==
    /\ buf' = Chain(TestLength, RuSt, Message, TestBadCrc)
    /\ res' = Chunk_try_from(buf')
    /\ origin' = "test_invalid"
    /\ code' = <<>>
    /\ tres' = NoRes
    /\ chunk' = None

Next ==
    \/ Fresh /\ \E value \in [1..4 -> TypeBytes] : TypeTryFrom(value)
    \/ \E payload \in Payloads : New(payload)
    \/ AsBytes
    \/ \E i \in 1..(REQ_FIELDS_WIDTH + Len(Message)), v \in NoiseBytes : SetByte(i, v)
    \/ \E n \in 0..(REQ_FIELDS_WIDTH + Len(Message)) : Truncate(n)
    \/ \E v \in NoiseBytes : Append_(v)
    \/ Fresh /\ \E declared \in DeclaredLengths, type_bytes \in [1..4 -> TypeBytes],
                   payload \in Payloads, crc_choice \in {"good", "minus_one", "zero"} :
                     Assemble(declared, type_bytes, payload, crc_choice)
    \/ TryFrom
    \/ Fresh /\ TestNewChunk
    \/ Fresh /\ TestValidChunkFromBytes
    \/ Fresh /\ TestInvalidChunkFromBytes

\* the codec: construction, encoding, corruption, assembly, decoding
Spec == Init /\ [][Next]_vars

\* the strings handed to from_str: 3 to 5 bytes of 'R' and 't'
StrInputs == UNION {[1..n -> {82, 116}] : n \in 3..5}

TypeNext ==
    \/ Fresh /\ \E value \in [1..4 -> WideBytes] : TypeTryFrom(value)
    \/ Fresh /\ \E value \in StrInputs : TypeFromStr(value)

\* the type code alone, over every 4-byte array of WideBytes
TypeSpec == Init /\ [][TypeNext]_vars

-----------------------------------------------------------------------------
(* The properties. They read the wire format off the buffer on their own:  *)
(* none goes through to_be_bytes, from_be_bytes, InRange or the flag       *)
(* accessors it is about.                                                  *)

\* 0x41-0x5A or 0x61-0x7A
AsciiLetter(b) == (65 <= b /\ b <= 90) \/ (97 <= b /\ b <= 122)

\* bit 0x20 of b is clear
Bit5Clear(b) == (b \div 32) % 2 = 0

\* the buffer b (shorter than 65536 + 12 bytes) has exactly 12 + L bytes, L
\* the big-endian number in its first 4 bytes
DeclaredMatches(b) == b[1] = 0 /\ b[2] = 0 /\ Len(b) = 12 + b[3] * 256 + b[4]

\* the big-endian number in the last 4 bytes of b, as limbs
StoredCrc(b) ==
    <<b[Len(b) - 3] * 256 + b[Len(b) - 2], b[Len(b) - 1] * 256 + b[Len(b)]>>

\* the CRC-32 of bytes [4 .. 8+L) of b: all but the first and the last 4
CrcOfBody(b) == checksum(SubSeq(b, 5, Len(b) - 4))

\* the first index from 0 of a byte of the 4-byte array a that is no letter
FirstNonLetter(a) == CHOOSE i \in 0..3 :
    ~AsciiLetter(a[i + 1]) /\ \A j \in 0..(i - 1) : AsciiLetter(a[j + 1])

\* C1: decoding the bytes as_bytes produced for Chunk::new(t, p) succeeds,
\* and the decoded chunk has t's bytes, the payload p and the same crc()
C1_RoundTrip ==
    (origin = "as_bytes" /\ res.kind # "none") =>
        /\ res.kind = "ok"
        /\ bytes(chunk_type(res.val)) = bytes(chunk_type(chunk[1]))
        /\ bytes(chunk_type(res.val)) = code
        /\ data(res.val) = data(chunk[1])
        /\ crc(res.val) = crc(chunk[1])

\* a chunk whose type has the reserved bit set (is_valid() false) and whose
\* payload is not empty made the round trip
C1_Witness ==
    /\ origin = "as_bytes"
    /\ res.kind = "ok"
    /\ ~is_valid(chunk_type(chunk[1]))
    /\ Len(data(chunk[1])) = MaxLen

\* C2: as_bytes gives 12 + length() bytes: length() big-endian, the 4 type
\* bytes, the payload unchanged, crc() big-endian
C2_WireLayout ==
    origin = "as_bytes" =>
        LET c == chunk[1]
            n == Len(data(c))
        IN  /\ length(c) = <<0, n>>
            /\ Len(buf) = 12 + n
            /\ \A i \in 1..Len(buf) : buf[i] \in 0..255
            /\ buf[1] * 256 + buf[2] = 0
            /\ buf[3] * 256 + buf[4] = n
            /\ SubSeq(buf, 5, 8) = code
            /\ SubSeq(buf, 9, 8 + n) = data(c)
            /\ buf[n + 9] * 256 + buf[n + 10] = crc(c)[1]
            /\ buf[n + 11] * 256 + buf[n + 12] = crc(c)[2]

\* the chunk of test_new_chunk encoded: 54 bytes that end in AB D1 D8 4E
C2_Witness ==
    /\ origin = "as_bytes"
    /\ data(chunk[1]) = Message
    /\ Len(buf) = 54
    /\ SubSeq(buf, 1, 8) = <<0, 0, 0, 42>> \o RuSt
    /\ SubSeq(buf, 51, 54) = <<171, 209, 216, 78>>

\* C3: a buffer of at least 12 bytes whose length is not 12 + L fails with
\* "invalid length", shorter or longer; none decodes to a Chunk
C3_LengthExact ==
    (res.kind # "none" /\ Len(buf) >= 12 /\ ~DeclaredMatches(buf)) =>
        /\ res.kind = "err"
        /\ res.msg = "invalid chunk data (invalid length)"

\* an encoded chunk with one byte after its end was refused
C3_Witness ==
    /\ origin = "corrupted"
    /\ Len(buf) = 12 + Len(data(chunk[1])) + 1
    /\ SubSeq(buf, 1, Len(buf) - 1) = as_bytes(chunk[1])
    /\ res.kind = "err"
    /\ res.msg = "invalid chunk data (invalid length)"

\* C4: with the length checks passed and a letter-only type, try_from gives
\* a Chunk exactly when the last 4 bytes are the CRC-32 of bytes [4 .. 8+L),
\* and an error otherwise
C4_ChecksumVerified ==
    (/\ res.kind # "none"
     /\ Len(buf) >= 12
     /\ DeclaredMatches(buf)
     /\ \A i \in 5..8 : AsciiLetter(buf[i])) =>
        /\ res.kind = "ok" <=> StoredCrc(buf) = CrcOfBody(buf)
        /\ res.kind = "err" <=> StoredCrc(buf) # CrcOfBody(buf)

\* the buffer of test_invalid_chunk_from_bytes, whose checksum field is the
\* right one minus one, was refused
C4_Witness ==
    /\ origin = "test_invalid"
    /\ StoredCrc(buf) = Pred32(CrcOfBody(buf))
    /\ res.kind = "err"

\* C5: ChunkType::try_from succeeds exactly on 4 letters and keeps them
\* verbatim; "Rust" constructs (is_valid() false), "Ru1t" does not
C5_TypeConstruction ==
    (tres.kind # "none" /\ Len(code) = 4) =>
        /\ tres.kind \in {"ok", "err"}
        /\ tres.kind = "ok" <=> \A i \in 1..4 : AsciiLetter(code[i])
        /\ tres.kind = "ok" => bytes(tres.val) = code
        /\ code = <<82, 117, 115, 116>> => tres.kind = "ok" /\ ~is_valid(tres.val)
        /\ code = <<82, 117, 49, 116>> => tres.kind = "err"

\* "Rust" was constructed: its bytes are kept and it is not valid
C5_Witness ==
    /\ code = <<82, 117, 115, 116>>
    /\ tres.kind = "ok"
    /\ bytes(tres.val) = <<82, 117, 115, 116>>
    /\ ~is_valid(tres.val)

\* the 4-byte arrays that share byte i (from 1) with a and hold 'A' or 'z'
\* elsewhere
SameAt(a, i) == {o \in [1..4 -> {65, 122, a[i]}] : o[i] = a[i]}

\* C6: each flag is bit 0x20 of its own byte (clear for critical, public and
\* reserved-bit-valid, set for safe-to-copy), is_valid is reserved-bit-valid,
\* and type codes that agree on a flag's byte agree on the flag
C6_Flags ==
    (tres.kind = "ok") =>
        LET t == tres.val
        IN  /\ is_critical(t) = Bit5Clear(code[1])
            /\ is_public(t) = Bit5Clear(code[2])
            /\ is_reserved_bit_valid(t) = Bit5Clear(code[3])
            /\ is_safe_to_copy(t) = ~Bit5Clear(code[4])
            /\ is_valid(t) = is_reserved_bit_valid(t)
            /\ \A o \in SameAt(code, 1) :
                   is_critical(ChunkType_try_from(o).val) = is_critical(t)
            /\ \A o \in SameAt(code, 2) :
                   is_public(ChunkType_try_from(o).val) = is_public(t)
            /\ \A o \in SameAt(code, 3) :
                   /\ is_reserved_bit_valid(ChunkType_try_from(o).val)
                          = is_reserved_bit_valid(t)
                   /\ is_valid(ChunkType_try_from(o).val) = is_valid(t)
            /\ \A o \in SameAt(code, 4) :
                   is_safe_to_copy(ChunkType_try_from(o).val) = is_safe_to_copy(t)

\* "RuSt": critical, not public, reserved bit valid, safe to copy
C6_Witness ==
    /\ code = RuSt
    /\ tres.kind = "ok"
    /\ is_critical(tres.val)
    /\ ~is_public(tres.val)
    /\ is_reserved_bit_valid(tres.val)
    /\ is_safe_to_copy(tres.val)
    /\ is_valid(tres.val)

\* the 32-bit value CRC-32/ISO-HDLC leaves when a message is followed by its
\* own CRC, low byte first: 0x2144DF1C
CrcResidue == <<8516, 57116>>

\* the bytes of a u32 from the lowest to the highest
LowFirst(x) == <<x[2] % 256, x[2] \div 256, x[1] % 256, x[1] \div 256>>

\* C7: crc() is the CRC-32/ISO-HDLC of the type bytes followed by the
\* payload. For "RuSt" and the message it is 2882656334 and length() is 42;
\* the test buffer decodes to that length, type string, checksum and text;
\* and every chunk's type bytes and payload followed by its crc() leave the
\* residue of CRC-32/ISO-HDLC
C7_Checksum ==
    /\ chunk # None =>
           /\ checksum(code \o data(chunk[1]) \o LowFirst(crc(chunk[1]))) = CrcResidue
           /\ (code = RuSt /\ data(chunk[1]) = Message) =>
                  /\ crc(chunk[1]) = <<43985, 55374>>
                  /\ length(chunk[1]) = <<0, 42>>
    /\ origin = "test_valid" =>
           /\ res.kind = "ok"
           /\ length(res.val) = <<0, 42>>
           /\ ChunkType_to_string(chunk_type(res.val)) = RuSt
           /\ crc(res.val) = <<43985, 55374>>
           /\ data_as_string(res.val) = Ok(Message)
    /\ res.kind = "ok" =>
           checksum(SubSeq(buf, 5, Len(buf) - 4) \o LowFirst(crc(res.val))) = CrcResidue

\* the buffer of test_valid_chunk_from_bytes was decoded
C7_Witness ==
    /\ origin = "test_valid"
    /\ res.kind = "ok"
    /\ crc(res.val) = <<43985, 55374>>
    /\ data(res.val) = Message

\* C8: try_from ends in a Chunk or in an error, never a panic, and the error
\* is that of the first failing check: at least 12 bytes, exactly 12 + L
\* bytes, four letters, the checksum
C8_CheckOrder ==
    res.kind # "none" =>
        /\ res.kind \in {"ok", "err"}
        /\ res.kind = "err" => res.val = NoVal
        /\ IF Len(buf) < 12
           THEN res.kind = "err" /\ res.msg = "invalid chunk data (incomplete)"
           ELSE IF ~DeclaredMatches(buf)
           THEN res.kind = "err" /\ res.msg = "invalid chunk data (invalid length)"
           ELSE IF \E i \in 5..8 : ~AsciiLetter(buf[i])
           THEN /\ res.kind = "err"
                /\ res.msg = "byte " \o ToString(FirstNonLetter(SubSeq(buf, 5, 8)))
                                 \o " is out of range"
           ELSE IF StoredCrc(buf) # CrcOfBody(buf)
           THEN res.kind = "err" /\ res.msg = "checksum does not match data"
           ELSE res.kind = "ok"

\* a buffer of the right length with a type byte that is no letter and a
\* wrong checksum reported the type byte
C8_Witness ==
    /\ Len(buf) >= 12
    /\ DeclaredMatches(buf)
    /\ ~AsciiLetter(buf[6])
    /\ StoredCrc(buf) # CrcOfBody(buf)
    /\ res.kind = "err"
    /\ res.msg = "byte 1 is out of range"

\* C9: a failed ChunkType::try_from names the smallest index whose byte is
\* no letter
C9_FirstIndex ==
    (tres.kind = "err" /\ Len(code) = 4) =>
        /\ \E i \in 1..4 : ~AsciiLetter(code[i])
        /\ tres.msg = "byte " \o ToString(FirstNonLetter(code)) \o " is out of range"

\* bytes 1 and 3 are no letters and byte 1 is the one named
C9_Witness ==
    /\ Len(code) = 4
    /\ AsciiLetter(code[1])
    /\ ~AsciiLetter(code[2])
    /\ AsciiLetter(code[3])
    /\ ~AsciiLetter(code[4])
    /\ tres.kind = "err"
    /\ tres.msg = "byte 1 is out of range"

\* C10: a buffer try_from accepts is, byte for byte, as_bytes of the chunk
\* it decodes to
C10_Canonical ==
    res.kind = "ok" => as_bytes(res.val) = buf

\* a buffer chained from its fields, with a payload, was accepted
C10_Witness ==
    /\ origin = "assembled"
    /\ res.kind = "ok"
    /\ Len(data(res.val)) = MaxLen

====
